---- MODULE Spec2Model ----
(***************************************************************************)
(* A model of the redigo cache server (src/server/server.go): the          *)
(* single-threaded epoll event loop of Server.Start, the line protocol of  *)
(* Server.handlecommand and its handlers, and the cache they drive.        *)
(*                                                                         *)
(* A byte string is a sequence of chunks.  A chunk is either one           *)
(* whitespace byte (" ", "\t", "\n"), one sign or digit byte ("-", "+",    *)
(* "0".."9"), or a run of other non-whitespace bytes ("SET", "a").         *)
(***************************************************************************)
EXTENDS Integers, Sequences, FiniteSets, TLC

(* ------------------------------ bounds -------------------------------- *)
\* client connections the process can hold open at once (descriptor limit)
MaxConns == 2
\* segments received and unread, all connections together
MaxPending == 1
\* seconds the clock advances during a run
MaxTicks == 2
\* connections waiting in the listen queue
MaxBacklog == 1

(* ---------------------------- byte strings ---------------------------- *)
SP == " "
TAB == "\t"
NL == "\n"

\* unicode.IsSpace on the bytes that occur
WhiteSpace == {SP, TAB, NL}

DigitVal ==
  ("0" :> 0) @@ ("1" :> 1) @@ ("2" :> 2) @@ ("3" :> 3) @@ ("4" :> 4) @@
  ("5" :> 5) @@ ("6" :> 6) @@ ("7" :> 7) @@ ("8" :> 8) @@ ("9" :> 9)

RECURSIVE FieldsAcc(_, _, _)
FieldsAcc(s, cur, acc) ==
  IF s = <<>>
    THEN IF cur = <<>> THEN acc ELSE Append(acc, cur)
    ELSE IF Head(s) \in WhiteSpace
      THEN FieldsAcc(Tail(s), <<>>, IF cur = <<>> THEN acc ELSE Append(acc, cur))
      ELSE FieldsAcc(Tail(s), Append(cur, Head(s)), acc)

\* strings.Fields: the maximal runs of non-whitespace bytes, in order
Fields(s) == FieldsAcc(s, <<>>, <<>>)

RECURSIVE DigitsValue(_, _)
DigitsValue(ds, acc) ==
  IF ds = <<>> THEN acc ELSE DigitsValue(Tail(ds), 10 * acc + DigitVal[Head(ds)])

\* strconv.Atoi: an optional sign, then one or more decimal digits
Atoi(tok) ==
  LET signed == tok # <<>> /\ Head(tok) \in {"-", "+"}
      ds     == IF signed THEN Tail(tok) ELSE tok
      good   == ds # <<>> /\ \A i \in 1..Len(ds) : ds[i] \in DOMAIN DigitVal
  IN  IF ~good
        THEN [ok |-> FALSE, val |-> 0]
        ELSE [ok |-> TRUE,
              val |-> IF signed /\ Head(tok) = "-"
                        THEN 0 - DigitsValue(ds, 0)
                        ELSE DigitsValue(ds, 0)]

(* --------------------------- response texts --------------------------- *)
Success == <<"Success">>
Yes == <<"Yes">>
No == <<"No">>
ErrShort ==
  <<"message", SP, "must", SP, "atleast", SP, "have", SP, "command", SP,
    "and", SP, "key">>
ErrSetArity ==
  <<"SET", SP, "message", SP, "must", SP, "atleast", SP, "have", SP, "key",
    SP, "and", SP, "value">>
ErrInvalidTTL == <<"invalid", SP, "TTl">>
ErrUnknown(cmd) == <<"unknown", SP, "Command", SP>> \o cmd
\* error texts of the cache package
ErrNotFound == <<"key", SP, "not", SP, "found">>
ErrInvalidArgument == <<"invalid", SP, "argument">>

(* ------------------------------- cache -------------------------------- *)
\* The cache is a function from the keys present to [val, hasExp, exp].
EmptyCache == <<>>

Entry(v, hasExp, exp) == [val |-> v, hasExp |-> hasExp, exp |-> exp]

Expired(e, t) == e.hasExp /\ t >= e.exp

Put(c, k, e) == [x \in DOMAIN c \cup {k} |-> IF x = k THEN e ELSE c[x]]

Remove(c, k) == [x \in DOMAIN c \ {k} |-> c[x]]

\* a cache operation's outcome: the cache after it, an error or none, a value
CacheRet(c, failed, msg, val) ==
  [cache |-> c, failed |-> failed, msg |-> msg, val |-> val]

CacheSet(c, k, v) == CacheRet(Put(c, k, Entry(v, FALSE, 0)), FALSE, <<>>, <<>>)

CacheSetWithTTL(c, k, v, ttl, t) ==
  IF ttl < 0
    THEN CacheRet(c, TRUE, ErrInvalidArgument, <<>>)
    ELSE CacheRet(Put(c, k, Entry(v, TRUE, t + ttl)), FALSE, <<>>, <<>>)

CacheGet(c, k, t) ==
  IF k \notin DOMAIN c
    THEN CacheRet(c, TRUE, ErrNotFound, <<>>)
    ELSE IF Expired(c[k], t)
      THEN CacheRet(Remove(c, k), TRUE, ErrNotFound, <<>>)
      ELSE CacheRet(c, FALSE, <<>>, c[k].val)

CacheDelete(c, k) ==
  IF k \notin DOMAIN c
    THEN CacheRet(c, TRUE, ErrNotFound, <<>>)
    ELSE CacheRet(Remove(c, k), FALSE, <<>>, <<>>)

\* val is Yes or No here: the boolean Has returns
CacheHas(c, k, t) ==
  IF k \notin DOMAIN c
    THEN CacheRet(c, FALSE, <<>>, FALSE)
    ELSE IF Expired(c[k], t)
      THEN CacheRet(Remove(c, k), FALSE, <<>>, FALSE)
      ELSE CacheRet(c, FALSE, <<>>, TRUE)

DeleteExpiredKeys(c, t) ==
  [x \in {k \in DOMAIN c : ~Expired(c[k], t)} |-> c[x]]

(* ------------------------------ handlers ------------------------------ *)
\* what a handler returns: (resp, err), the cache after it, the cache calls made
Call(op, k, v, ttl) == [op |-> op, key |-> k, val |-> v, ttl |-> ttl]

Ret(resp, failed, msg, c, calls) ==
  [resp |-> resp, failed |-> failed, msg |-> msg, cache |-> c, calls |-> calls]

\* handleSet passing the value where the key belongs: s.cache.Set(val, key)
handleSet_Swapped(c, key, val) ==
  LET r == CacheSet(c, val, key)
      calls == <<Call("Set", key, val, 0)>>
  IN  IF r.failed
        THEN Ret(<<>>, TRUE, r.msg, r.cache, calls)
        ELSE Ret(Success, FALSE, <<>>, r.cache, calls)

handleSet(c, key, val) ==
  LET r == CacheSet(c, key, val)
      calls == <<Call("Set", key, val, 0)>>
  IN  IF r.failed
        THEN Ret(<<>>, TRUE, r.msg, r.cache, calls)
        ELSE Ret(Success, FALSE, <<>>, r.cache, calls)

\* handleSetWithTTL that drops Atoi's error and goes on with the value 0
handleSetWithTTL_IgnoreParseError(c, key, val, ttl, t) ==
  LET r == CacheSetWithTTL(c, key, val, Atoi(ttl).val, t)
      calls == <<Call("SetWithTTL", key, val, Atoi(ttl).val)>>
  IN  IF r.failed
        THEN Ret(<<>>, TRUE, r.msg, r.cache, calls)
        ELSE Ret(Success, FALSE, <<>>, r.cache, calls)

handleSetWithTTL(c, key, val, ttl, t) ==
  LET parsed == Atoi(ttl)
  IN  IF ~parsed.ok
        THEN Ret(<<>>, TRUE, ErrInvalidTTL, c, <<>>)
        ELSE LET r == CacheSetWithTTL(c, key, val, parsed.val, t)
                 calls == <<Call("SetWithTTL", key, val, parsed.val)>>
             IN  IF r.failed
                   THEN Ret(<<>>, TRUE, r.msg, r.cache, calls)
                   ELSE Ret(Success, FALSE, <<>>, r.cache, calls)

handleGet(c, key, t) ==
  LET r == CacheGet(c, key, t)
      calls == <<Call("Get", key, <<>>, 0)>>
  IN  IF r.failed
        THEN Ret(<<>>, TRUE, r.msg, r.cache, calls)
        ELSE Ret(r.val, FALSE, <<>>, r.cache, calls)

handleDel(c, key) ==
  LET r == CacheDelete(c, key)
      calls == <<Call("Delete", key, <<>>, 0)>>
  IN  IF r.failed
        THEN Ret(<<>>, TRUE, r.msg, r.cache, calls)
        ELSE Ret(Success, FALSE, <<>>, r.cache, calls)

\* handleHas with the test on isPresent turned round
handleHas_Inverted(c, key, t) ==
  LET r == CacheHas(c, key, t)
      calls == <<Call("Has", key, <<>>, 0)>>
  IN  IF r.val
        THEN Ret(No, FALSE, <<>>, r.cache, calls)
        ELSE Ret(Yes, FALSE, <<>>, r.cache, calls)

handleHas(c, key, t) ==
  LET r == CacheHas(c, key, t)
      calls == <<Call("Has", key, <<>>, 0)>>
  IN  IF ~r.val
        THEN Ret(No, FALSE, <<>>, r.cache, calls)
        ELSE Ret(Yes, FALSE, <<>>, r.cache, calls)

\* the SET switch taking any line of more than 4 tokens as a plain SET
switchSet_ExtraTokens(c, parts, t) ==
  CASE Len(parts) = 4 -> handleSetWithTTL(c, parts[2], parts[3], parts[4], t)
    [] Len(parts) >= 3 /\ Len(parts) # 4 -> handleSet(c, parts[2], parts[3])
    [] OTHER -> Ret(<<>>, TRUE, ErrSetArity, c, <<>>)

\* the SET case of handlecommand: the switch on len_cmd
switchSet(c, parts, t) ==
  CASE Len(parts) = 3 -> handleSet(c, parts[2], parts[3])
    [] Len(parts) = 4 -> handleSetWithTTL(c, parts[2], parts[3], parts[4], t)
    [] OTHER -> Ret(<<>>, TRUE, ErrSetArity, c, <<>>)

handlecommand(c, rawCmd, t) ==
  LET parts == Fields(rawCmd)
      len_cmd == Len(parts)
  IN  IF len_cmd < 2
        THEN Ret(<<>>, TRUE, ErrShort, c, <<>>)
        ELSE LET cmd == parts[1]
                 key == parts[2]
             IN  CASE cmd = <<"SET">> -> switchSet(c, parts, t)
                   [] cmd = <<"GET">> -> handleGet(c, key, t)
                   [] cmd = <<"DEL">> -> handleDel(c, key)
                   [] cmd = <<"HAS">> -> handleHas(c, key, t)
                   [] OTHER -> Ret(<<>>, TRUE, ErrUnknown(cmd), c, <<>>)

(* --------------------------- configuration ---------------------------- *)
\* the listening socket's descriptor
serverFD == 3

\* ServerOpts.CronFrequency, in seconds
CronFrequency == 1

\* the zero time.Time, the value of lastCronExecTime after NewServer
ZeroTime == 0

\* the wall clock when Start is called: later than ZeroTime + CronFrequency
StartTime == ZeroTime + CronFrequency + 1

ClientFds == (serverFD + 1)..(serverFD + MaxConns)

\* the largest value of con_clients, an unsigned word: 2^64 - 1 in the program,
\* here the largest integer the model checker has
UintMax == 2147483647

\* s.con_clients++ on an unsigned word
Inc(n) == IF n = UintMax THEN 0 ELSE n + 1

\* Dec with the decrement left out
Dec_Missing(n) == n

\* s.con_clients-- on an unsigned word: 0 wraps to the largest value
Dec(n) == IF n = 0 THEN UintMax ELSE n - 1

\* what clients send in one segment: command lines, and a line's first half
Msgs ==
  { <<NL>>,
    <<"GET", NL>>,
    <<"PUT", SP, "a", SP, "b", NL>>,
    <<"SET", SP, "a", NL>>,
    <<"SET", SP, "a", SP, "b", NL>>,
    <<"SET", SP, "a", SP, "b", SP, "c", SP, "d", NL>>,
    <<SP, "SET", SP, SP, "a", TAB, "c", SP, "1", SP, NL>>,
    <<"SET", SP, "a", SP, "c", SP, "-", "5", NL>>,
    <<"SET", SP, "a", SP, "c", SP, "x", NL>>,
    <<"GET", SP, "a", NL>>,
    <<"DEL", SP, "a", NL>>,
    <<"HAS", SP, "a", NL>>,
    <<"GET", SP, "a">>,
    <<"SET", SP, "a", SP, "b", NL, "GET", SP, "a", NL>> }

\* what the clients of the many-client runs send
LoopMsgs ==
  { <<NL>>,
    <<"SET", SP, "a", SP, "b", NL>>,
    <<"GET", SP, "a", NL>>,
    <<"GET", SP, "a">>,
    <<"SET", SP, "a", SP, "b", NL, "GET", SP, "a", NL>> }

\* what the clients of the many-client runs with a clock send
TimedMsgs ==
  { <<"SET", SP, "a", SP, "c", SP, "1", NL>>,
    <<"GET", SP, "a">> }

\* the runs with a writing and a reading client: the connection on the writer's
\* descriptor sends WriterMsgs, every other connection ReaderMsgs
WriterFd == serverFD + 1

WriterMsgs ==
  { <<"SET", SP, "a", SP, "b", NL>>,
    <<"SET", SP, "a", SP, "c", NL>>,
    <<"DEL", SP, "a", NL>> }

ReaderMsgs == { <<"GET", SP, "a", NL>> }

(* ------------------------------- state -------------------------------- *)
VARIABLES
  pc,                \* where Start is: start, newmux, subscribe, loop, poll,
                     \* service, returned, exited
  retErr,            \* the error Start returned, "nil" while it has not
  now,               \* the wall clock, in seconds
  lastCronExecTime,  \* Server.lastCronExecTime
  cache,             \* the cache's entries
  con_clients,       \* Server.con_clients
  open,              \* the client descriptors that are open
  subscribed,        \* the descriptors the multiplexer monitors
  backlog,           \* connections waiting to be accepted
  inbuf,             \* per client descriptor, the segments received and unread
  peer,              \* per client descriptor, "open" or "fin" (peer closed)
  events,            \* the events of the current poll return not yet serviced
  last               \* what the latest step of Start did

vars ==
  <<pc, retErr, now, lastCronExecTime, cache, con_clients, open, subscribed,
    backlog, inbuf, peer, events, last>>

\* the record of a step: what it did (op) on which descriptor, the line read,
\* what handlecommand returned and called, the writes attempted (descriptor and
\* bytes), whether the write succeeded, whether the descriptor was closed
Step(op, fd, line, r, writes, wok, closed) ==
  [op |-> op, fd |-> fd, line |-> line, failed |-> r.failed, msg |-> r.msg,
   resp |-> r.resp, calls |-> r.calls, writes |-> writes, wok |-> wok,
   closed |-> closed]

NoRet == Ret(<<>>, FALSE, <<>>, <<>>, <<>>)

Note(op, fd) == Step(op, fd, <<>>, NoRet, <<>>, FALSE, FALSE)

Init ==
  /\ pc = "start"
  /\ retErr = "nil"
  /\ now = StartTime
  /\ lastCronExecTime = ZeroTime
  /\ cache = EmptyCache
  /\ con_clients = 0
  /\ open = {}
  /\ subscribed = {}
  /\ backlog = 0
  /\ inbuf = [fd \in ClientFds |-> <<>>]
  /\ peer = [fd \in ClientFds |-> "open"]
  /\ events = <<>>
  /\ last = Note("none", 0)

(* ------------------------------ start-up ------------------------------ *)
SetupErrors == {"socket", "setnonblock", "bind", "listen"}

\* Socket, SetNonblock, Bind, Listen: the first that fails is returned
Setup ==
  /\ pc = "start"
  /\ \E e \in SetupErrors \cup {"nil"} :
       /\ pc' = IF e = "nil" THEN "newmux" ELSE "returned"
       /\ retErr' = e
       /\ last' = Note("setup", serverFD)
  /\ UNCHANGED <<now, lastCronExecTime, cache, con_clients, open, subscribed,
                 backlog, inbuf, peer, events>>

\* iomultiplexer.New: on failure log.Fatal ends the process, Start returns nothing
NewMultiplexer ==
  /\ pc = "newmux"
  /\ \E ok \in BOOLEAN :
       /\ pc' = IF ok THEN "subscribe" ELSE "exited"
       /\ last' = Note(IF ok THEN "newmux" ELSE "fatal", 0)
  /\ UNCHANGED <<retErr, now, lastCronExecTime, cache, con_clients, open,
                 subscribed, backlog, inbuf, peer, events>>

\* Subscribe(serverFD): a failure is returned
SubscribeServer ==
  /\ pc = "subscribe"
  /\ \E ok \in BOOLEAN :
       /\ pc' = IF ok THEN "loop" ELSE "returned"
       /\ retErr' = IF ok THEN "nil" ELSE "subscribe"
       /\ subscribed' = IF ok THEN {serverFD} ELSE {}
       /\ backlog' = IF ok THEN backlog ELSE 0
       /\ last' = Note("subscribe", serverFD)
  /\ UNCHANGED <<now, lastCronExecTime, cache, con_clients, open, inbuf, peer,
                 events>>

(* ------------------------------ the loop ------------------------------ *)
CronDue(t, lastExec) == t > lastExec + CronFrequency

\* the top of an iteration: the cron check, then into Poll
LoopTop ==
  /\ pc = "loop"
  /\ pc' = "poll"
  /\ IF CronDue(now, lastCronExecTime)
       THEN /\ cache' = DeleteExpiredKeys(cache, now)
            /\ lastCronExecTime' = now
            /\ last' = Note("cron", 0)
       ELSE /\ UNCHANGED <<cache, lastCronExecTime>>
            /\ last' = Note("nocron", 0)
  /\ UNCHANGED <<retErr, now, con_clients, open, subscribed, backlog, inbuf,
                 peer, events>>

\* the top of an iteration when the sweep is due and takes a second: the
\* time.Now() stored at line 93 is later than the one compared at line 91
LoopTopSlowSweep ==
  /\ pc = "loop"
  /\ CronDue(now, lastCronExecTime)
  /\ now < StartTime + MaxTicks
  /\ pc' = "poll"
  /\ cache' = DeleteExpiredKeys(cache, now)
  /\ now' = now + 1
  /\ lastCronExecTime' = now + 1
  /\ last' = Note("cron", 0)
  /\ UNCHANGED <<retErr, con_clients, open, subscribed, backlog, inbuf, peer,
                 events>>

\* a monitored descriptor is ready when a read or accept on it would not block
ReadyFd(fd) ==
  IF fd = serverFD THEN backlog > 0 ELSE inbuf[fd] # <<>> \/ peer[fd] = "fin"

Ready == {fd \in subscribed : ReadyFd(fd)}

\* the orders in which some of the descriptors of S can be reported
Reports(S) ==
  {s \in UNION {[1..n -> S] : n \in 1..Cardinality(S)} :
     \A i, j \in DOMAIN s : i # j => s[i] # s[j]}

\* PollReturn of a Poll with a timeout: with no descriptor ready it returns no
\* events and the loop goes round
PollReturn_Timeout ==
  /\ pc = "poll"
  /\ IF Ready = {}
       THEN events' = <<>> /\ pc' = "loop"
       ELSE \E evs \in Reports(Ready) : events' = evs /\ pc' = "service"
  /\ last' = Note("poll", 0)
  /\ UNCHANGED <<retErr, now, lastCronExecTime, cache, con_clients, open,
                 subscribed, backlog, inbuf, peer>>

\* Poll(-1) returns events: blocked until a descriptor is ready
PollReturn ==
  /\ pc = "poll"
  /\ \E evs \in Reports(Ready) :
       /\ events' = evs
       /\ pc' = "service"
       /\ last' = Note("poll", 0)
  /\ UNCHANGED <<retErr, now, lastCronExecTime, cache, con_clients, open,
                 subscribed, backlog, inbuf, peer>>

\* PollError returning the error in place of continue
PollError_Return ==
  /\ pc = "poll"
  /\ pc' = "returned"
  /\ retErr' = "poll"
  /\ last' = Note("pollerr", 0)
  /\ UNCHANGED <<now, lastCronExecTime, cache, con_clients, open, subscribed,
                 backlog, inbuf, peer, events>>

\* Poll(-1) returns an error: continue
PollError ==
  /\ pc = "poll"
  /\ pc' = "loop"
  /\ last' = Note("pollerr", 0)
  /\ UNCHANGED <<retErr, now, lastCronExecTime, cache, con_clients, open,
                 subscribed, backlog, inbuf, peer, events>>

\* AfterEvent with break for continue: the rest of the events is dropped
AfterEvent_Break == "loop"

\* after the event at the head: the next one, or the top of the loop
AfterEvent == IF Tail(events) = <<>> THEN "loop" ELSE "service"

\* Accept returns the lowest descriptor that is free
LowestFree == CHOOSE fd \in ClientFds \ open : \A g \in ClientFds \ open : fd <= g

\* AcceptFail returning the error in place of continue
AcceptFail_Return ==
  /\ pc' = "returned"
  /\ retErr' = "accept"
  /\ last' = Note("acceptfail", serverFD)
  /\ UNCHANGED <<con_clients, open, subscribed, backlog>>

\* Accept fails: log, continue
AcceptFail ==
  /\ pc' = AfterEvent
  /\ last' = Note("acceptfail", serverFD)
  /\ UNCHANGED <<retErr, con_clients, open, subscribed, backlog>>

\* AcceptOk without lines 117-122: the descriptor is counted, never registered
AcceptOk_NoSubscribe ==
  /\ ClientFds \ open # {}
  /\ backlog > 0
  /\ con_clients' = Inc(con_clients)
  /\ open' = open \cup {LowestFree}
  /\ backlog' = backlog - 1
  /\ pc' = AfterEvent
  /\ last' = Note("accept", LowestFree)
  /\ UNCHANGED <<subscribed, retErr>>

\* Accept returns a descriptor; Subscribe on it succeeds, or fails and Start
\* returns the error (the deferred calls close the multiplexer and the socket)
AcceptOk ==
  /\ ClientFds \ open # {}
  /\ backlog > 0
  /\ \E ok \in BOOLEAN :
       /\ con_clients' = Inc(con_clients)
       /\ open' = open \cup {LowestFree}
       /\ backlog' = backlog - 1
       /\ subscribed' = IF ok THEN subscribed \cup {LowestFree} ELSE {}
       /\ pc' = IF ok THEN AfterEvent ELSE "returned"
       /\ retErr' = IF ok THEN "nil" ELSE "subscribe"
       /\ last' = Note(IF ok THEN "accept" ELSE "subscribefail", LowestFree)

\* ServiceAccept with the cron check of lines 91-94 moved into the range loop
ServiceAccept_CronInside ==
  /\ pc = "service"
  /\ events # <<>>
  /\ Head(events) = serverFD
  /\ events' = Tail(events)
  /\ (AcceptFail \/ AcceptOk)
  /\ IF CronDue(now, lastCronExecTime)
       THEN /\ cache' = DeleteExpiredKeys(cache, now)
            /\ lastCronExecTime' = now
       ELSE UNCHANGED <<cache, lastCronExecTime>>
  /\ UNCHANGED <<now, inbuf, peer>>

\* ServiceAccept putting the descriptor just accepted at the end of the events
\* being serviced
ServiceAccept_ServeNow ==
  /\ pc = "service"
  /\ events # <<>>
  /\ Head(events) = serverFD
  /\ (AcceptFail \/ AcceptOk)
  /\ events' = IF open' # open THEN Append(Tail(events), LowestFree)
                               ELSE Tail(events)
  /\ UNCHANGED <<now, lastCronExecTime, cache, inbuf, peer>>

\* the event at the head is the listening socket's: one Accept
ServiceAccept ==
  /\ pc = "service"
  /\ events # <<>>
  /\ Head(events) = serverFD
  /\ events' = Tail(events)
  /\ (AcceptFail \/ AcceptOk)
  /\ UNCHANGED <<now, lastCronExecTime, cache, inbuf, peer>>

\* the bytes a socket holds: its unread segments, end to end
RECURSIVE Bytes(_)
Bytes(segs) == IF segs = <<>> THEN <<>> ELSE Head(segs) \o Bytes(Tail(segs))

RECURSIVE IndexOf(_, _, _)
IndexOf(s, b, i) ==
  IF i > Len(s) THEN 0 ELSE IF s[i] = b THEN i ELSE IndexOf(s, b, i + 1)

\* fDconn.Read into the reader's buffer, on a non-blocking socket holding buf
\* (fewer bytes than the buffer takes): all of buf; the socket holds none after
connRead(buf) == [data |-> buf, left |-> <<>>]

\* ReadBytes dropping the error when some bytes were read: a line without its
\* newline passes for a line
ReadBytes_PartialOk(buf) ==
  LET rd == connRead(buf)
      i == IndexOf(rd.data, NL, 1)
  IN  IF i = 0
        THEN [ok |-> rd.data # <<>>, line |-> rd.data, left |-> rd.left]
        ELSE [ok |-> TRUE, line |-> SubSeq(rd.data, 1, i), left |-> rd.left]

\* bufio.NewReader(conn).ReadBytes('\n'): the reader's first Read fills its
\* buffer; without a newline in it the next Read fails (it would block, or the
\* peer has closed) and so does ReadBytes.  The reader is dropped after the
\* call, and what it buffered with it: left is what the socket still holds.
ReadBytes(buf) ==
  LET rd == connRead(buf)
      i == IndexOf(rd.data, NL, 1)
  IN  IF i = 0
        THEN [ok |-> FALSE, line |-> rd.data, left |-> rd.left]
        ELSE [ok |-> TRUE, line |-> SubSeq(rd.data, 1, i), left |-> rd.left]

\* conn.Close() and s.con_clients--; closing removes the descriptor from the
\* multiplexer and discards what the socket held
Close(fd) ==
  /\ open' = open \ {fd}
  /\ subscribed' = subscribed \ {fd}
  /\ peer' = [peer EXCEPT ![fd] = "open"]
  /\ inbuf' = [inbuf EXCEPT ![fd] = <<>>]
  /\ con_clients' = Dec(con_clients)

\* Response without lines 137-139: the error's text is never put in resp
Response_NoErrorText(r) == r.resp

\* resp, or the error's text in its place
Response(r) == IF r.failed THEN r.msg ELSE r.resp

\* Framed without the append: the response goes out unterminated
Framed_NoNewline(resp) == resp

\* append(resp, '\n')
Framed(resp) == Append(resp, NL)

\* ReadFails without lines 131-132: the handle stays open and counted
ReadFails_NoClose(fd, rd) ==
  /\ last' = Step("readerr", fd, rd.line, NoRet, <<>>, FALSE, FALSE)
  /\ UNCHANGED <<cache, con_clients, open, subscribed, peer, inbuf>>

\* ReadBytes failed: close, continue
ReadFails(fd, rd) ==
  /\ Close(fd)
  /\ last' = Step("readerr", fd, rd.line, NoRet, <<>>, FALSE, TRUE)
  /\ UNCHANGED cache

\* Respond undoing the command when its answer cannot be written
Respond_Rollback(fd, rd) ==
  LET r == handlecommand(cache, rd.line, now)
      wr == [fd |-> fd, data |-> Framed(Response(r))]
  IN  \E wok \in BOOLEAN :
        /\ last' = Step("cmd", fd, rd.line, r, <<wr>>, wok, ~wok)
        /\ IF wok
             THEN /\ cache' = r.cache
                  /\ inbuf' = [inbuf EXCEPT ![fd] = rd.left]
                  /\ UNCHANGED <<con_clients, open, subscribed, peer>>
             ELSE /\ cache' = cache
                  /\ Close(fd)

\* a line was read: run it, write the answer; close if the write fails
Respond(fd, rd) ==
  LET r == handlecommand(cache, rd.line, now)
      wr == [fd |-> fd, data |-> Framed(Response(r))]
  IN  /\ cache' = r.cache
      /\ \E wok \in BOOLEAN :
           /\ last' = Step("cmd", fd, rd.line, r, <<wr>>, wok, ~wok)
           /\ IF wok
                THEN /\ inbuf' = [inbuf EXCEPT ![fd] = rd.left]
                     /\ UNCHANGED <<con_clients, open, subscribed, peer>>
                ELSE Close(fd)

\* the event at the head is a client's
ServiceClient ==
  /\ pc = "service"
  /\ events # <<>>
  /\ Head(events) # serverFD
  /\ events' = Tail(events)
  /\ pc' = AfterEvent
  /\ LET fd == Head(events)
         rd == ReadBytes(Bytes(inbuf[fd]))
     IN  IF rd.ok THEN Respond(fd, rd) ELSE ReadFails(fd, rd)
  /\ UNCHANGED <<retErr, now, lastCronExecTime, backlog>>

(* --------------------------- the environment -------------------------- *)
Running == pc \in {"loop", "poll", "service"}

\* a client connects: the connection waits in the listen queue
Connect ==
  /\ Running
  /\ backlog < MaxBacklog
  /\ backlog' = backlog + 1
  /\ UNCHANGED <<pc, retErr, now, lastCronExecTime, cache, con_clients, open,
                 subscribed, inbuf, peer, events, last>>

ClientConnect == Connect

\* the only client there is connects
LoneClientConnect == open = {} /\ backlog = 0 /\ Connect

RECURSIVE Unread(_)
Unread(S) ==
  IF S = {} THEN 0
  ELSE LET fd == CHOOSE f \in S : TRUE IN Len(inbuf[fd]) + Unread(S \ {fd})

\* a segment of M arrives on an accepted connection
Send(M) ==
  /\ Running
  /\ \E fd \in open, m \in M :
       /\ peer[fd] = "open"
       /\ Unread(ClientFds) < MaxPending
       /\ inbuf' = [inbuf EXCEPT ![fd] = Append(@, m)]
  /\ UNCHANGED <<pc, retErr, now, lastCronExecTime, cache, con_clients, open,
                 subscribed, backlog, peer, events, last>>

ClientSend == Send(LoopMsgs)

LoneClientSend == Send(Msgs)

TimedClientSend == Send(TimedMsgs)

\* a segment of M arrives on an accepted connection whose descriptor is in F
SendOn(F, M) ==
  /\ Running
  /\ \E fd \in open \cap F, m \in M :
       /\ peer[fd] = "open"
       /\ Unread(ClientFds) < MaxPending
       /\ inbuf' = [inbuf EXCEPT ![fd] = Append(@, m)]
  /\ UNCHANGED <<pc, retErr, now, lastCronExecTime, cache, con_clients, open,
                 subscribed, backlog, peer, events, last>>

WriterSend == SendOn({WriterFd}, WriterMsgs)

ReaderSend == SendOn(ClientFds \ {WriterFd}, ReaderMsgs)

\* the peer closes its end
ClientClose ==
  /\ Running
  /\ \E fd \in open :
       /\ peer[fd] = "open"
       /\ peer' = [peer EXCEPT ![fd] = "fin"]
  /\ UNCHANGED <<pc, retErr, now, lastCronExecTime, cache, con_clients, open,
                 subscribed, backlog, inbuf, events, last>>

\* a second passes
Tick ==
  /\ Running
  /\ now < StartTime + MaxTicks
  /\ now' = now + 1
  /\ UNCHANGED <<pc, retErr, lastCronExecTime, cache, con_clients, open,
                 subscribed, backlog, inbuf, peer, events, last>>

Server ==
  \/ Setup
  \/ NewMultiplexer
  \/ SubscribeServer
  \/ LoopTop
  \/ PollReturn
  \/ PollError
  \/ ServiceAccept
  \/ ServiceClient

\* several clients at once, sending LoopMsgs, within a second of StartTime
Next ==
  \/ Server
  \/ ClientConnect
  \/ ClientSend
  \/ ClientClose

Spec == Init /\ [][Next]_vars

\* one client at a time, sending any of Msgs, while the clock advances
LoneNext ==
  \/ Server
  \/ LoneClientConnect
  \/ LoneClientSend
  \/ ClientClose
  \/ Tick
  \/ LoopTopSlowSweep

LoneSpec == Init /\ [][LoneNext]_vars

\* several clients at once, sending TimedMsgs, while the clock advances
TimedNext ==
  \/ Server
  \/ ClientConnect
  \/ TimedClientSend
  \/ Tick
  \/ LoopTopSlowSweep

TimedSpec == Init /\ [][TimedNext]_vars

\* a writing client and reading clients, within a second of StartTime
SharedNext ==
  \/ Server
  \/ ClientConnect
  \/ WriterSend
  \/ ReaderSend
  \/ ClientClose

SharedSpec == Init /\ [][SharedNext]_vars

(* ------------------------------- claims ------------------------------- *)
\* this step services the client event at the head of events
ClientStep ==
  /\ pc = "service"
  /\ events # <<>>
  /\ Head(events) # serverFD
  /\ events' = Tail(events)

\* this step services a client event and read a line
CmdStep == ClientStep /\ last'.op = "cmd"

\* the one write of the text txt and a newline to descriptor fd
WriteOf(fd, txt) == <<[fd |-> fd, data |-> Append(txt, NL)]>>

\* C1 as stated: for every line read and rejected by the dispatcher, the error
\* text is written back on the handle, and afterwards the handle is open and
\* registered and the connection counter is unchanged.
C1_Original ==
  [][CmdStep /\ last'.failed =>
       /\ last'.writes = WriteOf(Head(events), last'.msg)
       /\ Head(events) \in open'
       /\ Head(events) \in subscribed'
       /\ con_clients' = con_clients]_vars

\* C1 amended: for every line read and rejected by the dispatcher, one write of
\* the error text and a newline is attempted on the handle; if that write
\* succeeds, the handle is afterwards open and registered and the connection
\* counter is unchanged.
C1_RejectedLineAnswered ==
  [][CmdStep /\ last'.failed =>
       /\ last'.msg # <<>>
       /\ last'.writes = WriteOf(Head(events), last'.msg)
       /\ last'.wok =>
            /\ Head(events) \in open'
            /\ Head(events) \in subscribed'
            /\ open' = open
            /\ subscribed' = subscribed
            /\ con_clients' = con_clients]_vars

\* a rejected line (unknown command) was answered and its connection is open
C1_Witness ==
  /\ last.op = "cmd"
  /\ last.failed
  /\ last.msg = ErrUnknown(<<"PUT">>)
  /\ last.wok
  /\ last.fd \in open
  /\ con_clients = 1

\* C2 as stated: servicing a client handle consumes input up to and including
\* the next newline only; the bytes after it stay available on the handle.
C2_Claim ==
  [][CmdStep /\ last'.wok =>
       LET buf == Bytes(inbuf[Head(events)])
       IN  Bytes(inbuf'[Head(events)]) =
             SubSeq(buf, Len(last'.line) + 1, Len(buf))]_vars

\* C3: a step that reads a line from a client handle attempts exactly one
\* write, to that handle, of the response (payload or error text) followed by
\* a newline, the only newline in it; a step that reads no line writes nothing.
C3_OneWritePerLine ==
  [][last' # last =>
       IF ClientStep /\ ReadBytes(Bytes(inbuf[Head(events)])).ok
         THEN /\ last'.op = "cmd"
              /\ last'.line = ReadBytes(Bytes(inbuf[Head(events)])).line
              /\ last'.writes =
                   WriteOf(Head(events),
                           IF last'.failed THEN last'.msg ELSE last'.resp)
              /\ LET d == last'.writes[1].data IN IndexOf(d, NL, 1) = Len(d)
         ELSE last'.writes = <<>>]_vars

\* an empty line was read and answered while two connections were open
C3_Witness ==
  /\ last.op = "cmd"
  /\ last.line = <<NL>>
  /\ Len(last.writes) = 1
  /\ last.writes[1].fd = last.fd
  /\ Cardinality(open) = 2

\* the tokens of the line the latest step read
Parts(step) == Fields(step.line)

Commands == {<<"SET">>, <<"GET">>, <<"DEL">>, <<"HAS">>}

\* C4: a line of fewer than 2 tokens, a line whose first token is no command,
\* and a SET line of neither 3 nor 4 tokens are rejected with an error, no
\* cache operation is invoked and the cache is unchanged; SET a b is accepted
\* and performs set(a, b).
C4_MalformedRejected ==
  [][CmdStep =>
       LET parts == Parts(last')
           n == Len(parts)
           malformed ==
             \/ n < 2
             \/ n >= 2 /\ parts[1] \notin Commands
             \/ n >= 2 /\ parts[1] = <<"SET">> /\ n \notin {3, 4}
       IN  /\ malformed =>
                /\ last'.failed
                /\ last'.calls = <<>>
                /\ cache' = cache
           /\ (n = 3 /\ parts[1] = <<"SET">>) =>
                /\ ~last'.failed
                /\ last'.calls = <<Call("Set", parts[2], parts[3], 0)>>
                /\ parts[2] \in DOMAIN cache'
                /\ cache'[parts[2]] = Entry(parts[3], FALSE, 0)]_vars

\* a SET line of 5 tokens was rejected and no cache operation invoked
C4_Witness ==
  /\ last.op = "cmd"
  /\ Len(Parts(last)) = 5
  /\ Parts(last)[1] = <<"SET">>
  /\ last.failed
  /\ last.calls = <<>>

\* the payload of the one write of a step: the bytes before the final newline
Payload(step) ==
  LET d == step.writes[1].data IN SubSeq(d, 1, Len(d) - 1)

\* C5: the payload written is Success for a SET or DEL that succeeded, the
\* value the cache returned for a GET that succeeded, Yes or No for HAS as the
\* cache reports the key present or absent, never an error for HAS, and the
\* cache's error text for a GET or DEL of an absent key.
C5_ResponsePayload ==
  [][CmdStep /\ Len(Parts(last')) >= 2 =>
       LET cmd == Parts(last')[1]
           key == Parts(last')[2]
           get == CacheGet(cache, key, now)
           del == CacheDelete(cache, key)
           has == CacheHas(cache, key, now)
       IN  /\ (cmd = <<"SET">> /\ ~last'.failed) => Payload(last') = Success
           /\ cmd = <<"GET">> =>
                /\ last'.failed = get.failed
                /\ Payload(last') = IF get.failed THEN get.msg ELSE get.val
           /\ cmd = <<"DEL">> =>
                /\ last'.failed = del.failed
                /\ Payload(last') = IF del.failed THEN del.msg ELSE Success
           /\ cmd = <<"HAS">> =>
                /\ ~last'.failed
                /\ Payload(last') = IF has.val THEN Yes ELSE No
           /\ (cmd \in {<<"GET">>, <<"DEL">>} /\ key \notin DOMAIN cache) =>
                /\ last'.failed
                /\ Payload(last') = ErrNotFound]_vars

\* HAS of an absent key was answered No
C5_Witness ==
  /\ last.op = "cmd"
  /\ Parts(last) = <<<<"HAS">>, <<"a">>>>
  /\ last.writes[1].data = <<"No", NL>>
  /\ last.wok
  /\ cache = EmptyCache

\* the token is no non-negative integer: not a number, or a negative one
BadTTL(tok) == ~Atoi(tok).ok \/ Atoi(tok).val < 0

\* this step read a SET line of 4 tokens whose fourth is no non-negative integer
BadTTLStep ==
  /\ CmdStep
  /\ Len(Parts(last')) = 4
  /\ Parts(last')[1] = <<"SET">>
  /\ BadTTL(Parts(last')[4])

\* C6 as stated: a 4-token SET whose fourth token is no non-negative integer
\* gets an error-text response, stores nothing and leaves the connection open.
C6_Original ==
  [][BadTTLStep =>
       /\ last'.failed
       /\ last'.writes = WriteOf(Head(events), last'.msg)
       /\ cache' = cache
       /\ Head(events) \in open']_vars

\* C6 amended: a 4-token SET whose fourth token is no non-negative integer
\* gets an error-text response and stores nothing; the connection is left open
\* if the write of that response succeeds.
C6_BadTTLRejected ==
  [][BadTTLStep =>
       /\ last'.failed
       /\ last'.msg # <<>>
       /\ last'.writes = WriteOf(Head(events), last'.msg)
       /\ cache' = cache
       /\ last'.wok =>
            /\ Head(events) \in open'
            /\ Head(events) \in subscribed'
            /\ con_clients' = con_clients]_vars

\* SET a c -5 was rejected while a held b, which it still holds
C6_Witness ==
  /\ last.op = "cmd"
  /\ Len(Parts(last)) = 4
  /\ Parts(last)[4] = <<"-", "5">>
  /\ last.failed
  /\ last.wok
  /\ last.fd \in open
  /\ <<"a">> \in DOMAIN cache
  /\ cache[<<"a">>] = Entry(<<"b">>, FALSE, 0)

\* C7: a read or write failure on a client handle closes that handle only:
\* the other client handles stay open and registered with their input, the
\* listening handle stays registered, the cache is what it was (after the
\* command, for a write failure), Start does not return, and the remaining
\* events of the poll return are next.
C7_FailureIsLocal ==
  [][ClientStep /\ last'.closed =>
       LET fd == Head(events)
       IN  /\ open' = open \ {fd}
           /\ subscribed' = subscribed \ {fd}
           /\ serverFD \in subscribed'
           /\ \A g \in ClientFds \ {fd} :
                inbuf'[g] = inbuf[g] /\ peer'[g] = peer[g]
           /\ cache' = IF last'.op = "readerr"
                         THEN cache
                         ELSE handlecommand(cache, last'.line, now).cache
           /\ retErr' = "nil"
           /\ events' = Tail(events)
           /\ pc' = IF events' # <<>> THEN "service" ELSE "loop"]_vars

\* a read failed on one handle while another is open and has its event pending
C7_Witness ==
  /\ last.op = "readerr"
  /\ last.closed
  /\ pc = "service"
  /\ events # <<>>
  /\ Head(events) \in open
  /\ Head(events) # last.fd

\* C8: a poll failure services no handle, closes no connection and does not
\* end Start: the loop is back at its top, from where it polls again.
C8_PollFailureRetries ==
  [][/\ (pc = "poll" /\ last'.op = "pollerr") =>
          /\ pc' = "loop"
          /\ retErr' = "nil"
          /\ events = <<>>
          /\ UNCHANGED <<events, open, subscribed, con_clients, cache, inbuf,
                         peer, backlog>>
     /\ (pc = "loop" /\ pc' # "loop") => pc' = "poll"]_vars

\* the poll failed while a connection was open, and the loop is at its top
C8_Witness ==
  /\ last.op = "pollerr"
  /\ pc = "loop"
  /\ retErr = "nil"
  /\ open # {}

\* C9: once the loop is running, Start ends only by returning the error of
\* the Subscribe of a descriptor Accept has just returned.
C9_ReturnsOnlyOnSubscribeFailure ==
  [][(Running /\ pc' \notin {"loop", "poll", "service"}) =>
       /\ pc = "service"
       /\ Head(events) = serverFD
       /\ pc' = "returned"
       /\ retErr' = "subscribe"
       /\ last'.op = "subscribefail"
       /\ last'.fd \in open' \ open
       /\ con_clients' = con_clients + 1]_vars

\* Start returned the error of the Subscribe of an accepted descriptor
C9_Witness ==
  /\ pc = "returned"
  /\ retErr = "subscribe"
  /\ last.op = "subscribefail"
  /\ last.fd \in open

\* C10 as stated: when the multiplexer cannot be created, Start returns the
\* error to its caller, as it does when the listening handle cannot be
\* registered.
C10_Claim ==
  last.op = "fatal" => pc = "returned" /\ retErr # "nil"

\* C11: in every state the connection counter is the number of client handles
\* accepted and not yet closed; a step changes it only by adding one when
\* Accept has returned a handle, or by taking one away, from a counter above
\* 0, when a handle is closed.
C11_CounterCountsOpenHandles ==
  /\ [](con_clients = Cardinality(open))
  /\ [][con_clients' # con_clients =>
          \/ /\ con_clients' = con_clients + 1
             /\ last'.op \in {"accept", "subscribefail"}
             /\ open' = open \cup {last'.fd}
             /\ last'.fd \notin open
          \/ /\ con_clients > 0
             /\ con_clients' = con_clients - 1
             /\ last'.closed
             /\ last'.fd \in open
             /\ open' = open \ {last'.fd}]_vars

\* two handles were accepted and one of them then closed: the counter is 1
C11_Witness ==
  /\ last.closed
  /\ con_clients = 1
  /\ Cardinality(open) = 1
  /\ last.fd \notin open

\* the socket at the head of the events holds no complete line: ReadBytes fails
NoLine == IndexOf(Bytes(inbuf[Head(events)]), NL, 1) = 0

\* C12: when the read of a ready client handle fails, the peer's orderly close
\* included, the handle is closed and no longer registered, the counter goes
\* down by one, no command runs (the cache is as before), nothing is written,
\* and the loop goes on with the next ready handle, or the next iteration.
C12_ReadFailureCloses ==
  [][ClientStep /\ NoLine =>
       /\ last'.op = "readerr"
       /\ last'.fd = Head(events)
       /\ last'.closed
       /\ Head(events) \notin open'
       /\ Head(events) \notin subscribed'
       /\ con_clients' = con_clients - 1
       /\ cache' = cache
       /\ last'.calls = <<>>
       /\ last'.writes = <<>>
       /\ pc' = (IF Tail(events) = <<>> THEN "loop" ELSE "service")
       /\ retErr' = retErr]_vars

\* a peer closed without sending, its handle has been closed in turn, and
\* another ready handle of the same poll return is next
C12_Witness ==
  /\ last.op = "readerr"
  /\ last.line = <<>>
  /\ last.fd \notin open
  /\ pc = "service"
  /\ events # <<>>
  /\ Head(events) \in open

\* C13: when the write of a response fails the handle is closed and no longer
\* registered and the counter goes down by one, while the cache is what the
\* command made it (a key just set is there with its value).  Every handle
\* read or written is an open one, every write goes to the handle just read,
\* and a handle becomes open only by being returned by Accept.
C13_WriteFailureCloses ==
  /\ [][CmdStep /\ ~last'.wok =>
          /\ last'.closed
          /\ last'.fd = Head(events)
          /\ Head(events) \notin open'
          /\ Head(events) \notin subscribed'
          /\ con_clients' = con_clients - 1
          /\ cache' = handlecommand(cache, last'.line, now).cache
          /\ \A i \in DOMAIN last'.calls :
               last'.calls[i].op = "Set" =>
                 /\ last'.calls[i].key \in DOMAIN cache'
                 /\ cache'[last'.calls[i].key].val = last'.calls[i].val]_vars
  /\ [][/\ ClientStep =>
             /\ Head(events) \in open
             /\ last'.fd = Head(events)
             /\ \A i \in DOMAIN last'.writes :
                  last'.writes[i].fd = Head(events)
        /\ last' # last /\ ~ClientStep => last'.writes = <<>>
        /\ \A fd \in open' \ open :
             /\ last'.op \in {"accept", "subscribefail"}
             /\ last'.fd = fd]_vars

\* the answer to a SET could not be written: the handle is closed, the key is
\* in the cache
C13_Witness ==
  /\ last.op = "cmd"
  /\ ~last.wok
  /\ last.closed
  /\ last.fd \notin open
  /\ last.calls # <<>>
  /\ last.calls[1].op = "Set"
  /\ last.calls[1].key \in DOMAIN cache

\* this step is the top of an iteration: from the cron check into Poll
TopStep == pc = "loop" /\ pc' = "poll"

\* C14 as stated: at the top of every iteration the sweep runs exactly when
\* now >= lastCronExecTime + CronFrequency, equality included, and
\* lastCronExecTime becomes the time of that check; otherwise the cache and
\* lastCronExecTime stay as they are.
C14_Claim ==
  [][TopStep =>
       IF now >= lastCronExecTime + CronFrequency
         THEN /\ cache' = DeleteExpiredKeys(cache, now)
              /\ lastCronExecTime' = now
         ELSE UNCHANGED <<cache, lastCronExecTime>>]_vars

\* this step ran the sweep
SweepStep == lastCronExecTime' # lastCronExecTime \/ (TopStep /\ last'.op = "cron")

\* C15: the sweep runs only at the top of an iteration, with no event of a
\* poll return left to service.  While events of a poll return are being
\* serviced no step is a sweep, due or not: lastCronExecTime stays, and the
\* cache changes only as the command of the handle being serviced changes it.
C15_NoSweepMidCycle ==
  /\ [][SweepStep => pc = "loop" /\ events = <<>>]_vars
  /\ [][pc = "service" =>
          /\ lastCronExecTime' = lastCronExecTime
          /\ cache' = IF CmdStep
                        THEN handlecommand(cache, last'.line, now).cache
                        ELSE cache]_vars

\* one event of a poll return has been serviced and another is left, the sweep
\* has become due and a key of the cache has expired
C15_Witness ==
  /\ pc = "service"
  /\ events # <<>>
  /\ last.op \in {"accept", "cmd", "readerr"}
  /\ CronDue(now, lastCronExecTime)
  /\ \E k \in DOMAIN cache : Expired(cache[k], now)

\* C16: every step services one command of one connection to its end, and the
\* commands of all connections act on the one cache in the order they are
\* serviced: SET a v leaves v under a whoever reads next, GET answers with
\* the value the latest SET left, or with the cache's error after a DEL or
\* before any SET, and no step but a command's changes the cache (no key of
\* these runs expires).
C16_SequentialOnSharedCache ==
  [][/\ CmdStep =>
          LET parts == Parts(last')
              cmd == parts[1]
              key == parts[2]
              has == key \in DOMAIN cache
          IN  /\ Len(last'.calls) = 1
              /\ Len(last'.writes) = 1
              /\ last'.writes[1].fd = Head(events)
              /\ cmd = <<"SET">> =>
                   /\ cache' = Put(cache, key, Entry(parts[3], FALSE, 0))
                   /\ Payload(last') = Success
              /\ cmd = <<"GET">> =>
                   /\ cache' = cache
                   /\ Payload(last') = IF has THEN cache[key].val ELSE ErrNotFound
              /\ cmd = <<"DEL">> =>
                   /\ cache' = Remove(cache, key)
                   /\ Payload(last') = IF has THEN Success ELSE ErrNotFound
     /\ ~CmdStep => cache' = cache]_vars

\* a reading connection's GET was answered with the value c, which only the
\* writing connection, still open, can have set
C16_Witness ==
  /\ last.op = "cmd"
  /\ last.fd # WriterFd
  /\ Parts(last)[1] = <<"GET">>
  /\ Payload(last) = <<"c">>
  /\ WriterFd \in open

\* C17: the cron check is made only at the top of an iteration, reached from
\* start-up or from a Poll that has returned (with an error, or with events
\* that have since been serviced).  Poll returns only with a ready descriptor
\* or an error, and while Start is inside Poll no sweep runs, due or not: the
\* cache and lastCronExecTime stay as they are.
C17_SweepWaitsForPoll ==
  /\ [][SweepStep => TopStep]_vars
  /\ [][TopStep =>
          last.op \in {"subscribe", "pollerr", "accept", "acceptfail", "cmd",
                       "readerr"}]_vars
  /\ [][pc = "poll" =>
          /\ cache' = cache
          /\ lastCronExecTime' = lastCronExecTime
          /\ pc' # "poll" =>
               \/ Ready # {} /\ last'.op = "poll" /\ pc' = "service"
               \/ last'.op = "pollerr" /\ pc' = "loop"]_vars

\* Start is inside Poll with no descriptor ready, the sweep is overdue and a
\* key of the cache has expired
C17_Witness ==
  /\ pc = "poll"
  /\ Ready = {}
  /\ CronDue(now, lastCronExecTime)
  /\ \E k \in DOMAIN cache : Expired(cache[k], now)

\* the descriptors in a sequence of events
Handles(evs) == {evs[i] : i \in DOMAIN evs}

\* C18: the events of a poll return name each descriptor once and are serviced
\* from the head, one per step, the listening socket's where it stands: a step
\* after a poll return services the descriptor at the head and leaves the
\* rest.  The events change in no other way until the next poll return, so a
\* descriptor that becomes ready again, or is accepted, during the cycle is
\* not among them; once Start has returned nothing is serviced.
C18_ServicedInReportedOrder ==
  /\ [](\A i, j \in DOMAIN events : i # j => events[i] # events[j])
  /\ [][pc = "service" /\ last' # last =>
          /\ events # <<>>
          /\ events' = Tail(events)
          /\ IF Head(events) = serverFD
               THEN last'.op \in {"accept", "acceptfail", "subscribefail"}
               ELSE last'.op \in {"cmd", "readerr"} /\ last'.fd = Head(events)]_vars
  /\ [][events' # events =>
          \/ pc = "service" /\ last' # last
          \/ pc = "poll" /\ last'.op = "poll" /\ Handles(events') \subseteq Ready]_vars
  /\ [][(open' \ open) \cap Handles(events') = {}]_vars
  /\ [][(pc \in {"returned", "exited"}) => last' = last /\ events' = events]_vars

\* a client's event reported before the listening socket's has been serviced
\* first; the listening socket's is next, with a connection waiting
C18_Witness ==
  /\ pc = "service"
  /\ last.op \in {"cmd", "readerr"}
  /\ events = <<serverFD>>
  /\ backlog > 0

\* this step services the listening socket's event at the head of events
AcceptStep ==
  /\ pc = "service"
  /\ events # <<>>
  /\ Head(events) = serverFD
  /\ events' = Tail(events)

PartialLine ==
  /\ Bytes(inbuf[Head(events)]) # <<>>
  /\ NoLine
  /\ peer[Head(events)] = "open"

\* C20: when the socket of the event at the head holds part of a line without
\* its newline, the step that services it is there to be taken and does not
\* wait for the rest: the read fails, the handle is closed and counted
\* out, nothing is written, no command runs, the bytes read are gone from the
\* socket, and the loop goes on with the next event, or back to the top and
\* into Poll.
C20_PartialLineCloses ==
  /\ [](pc = "service" /\ events # <<>> /\ Head(events) # serverFD /\ PartialLine
          => ENABLED ServiceClient)
  /\ [][ClientStep /\ PartialLine =>
          /\ last'.op = "readerr"
          /\ last'.line = Bytes(inbuf[Head(events)])
          /\ last'.closed
          /\ Head(events) \notin open'
          /\ Head(events) \notin subscribed'
          /\ con_clients' = con_clients - 1
          /\ last'.writes = <<>>
          /\ last'.calls = <<>>
          /\ cache' = cache
          /\ inbuf'[Head(events)] = <<>>
          /\ pc' = (IF Tail(events) = <<>> THEN "loop" ELSE "service")]_vars

\* GET a arrived without its newline: the read failed on it, the handle is
\* closed, nothing was written and the bytes are gone
C20_Witness ==
  /\ last.op = "readerr"
  /\ last.line = <<"GET", SP, "a">>
  /\ last.writes = <<>>
  /\ last.fd \notin open
  /\ inbuf[last.fd] = <<>>

====
